---- MODULE Spec2Model ----
(***************************************************************************)
(* Model of the FoodRescue backend (src/backend/main.py): the donation     *)
(* store and its write endpoints (create_donation, update_donation_status, *)
(* cleanup_expired_donations) and the WebSocket ConnectionManager.         *)
(*                                                                         *)
(* Scheduling.  The `async def` endpoints run as tasks of one asyncio      *)
(* event loop: a task runs without interruption from one `await` to the    *)
(* next, so a hub operation is atomic between two awaits.  The store calls *)
(* of an `async def` endpoint (query, commit, refresh) are synchronous and *)
(* keep the event loop busy, but the `def` endpoint                        *)
(* cleanup_expired_donations runs in a worker thread and can commit        *)
(* between any two of them.  `running` is the task that holds the event    *)
(* loop across its store calls.                                            *)
(*                                                                         *)
(* The authentication router (src/backend/auth.py: register, verify_otp,   *)
(* login, login_verify, resend_otp) works on its own table and is the      *)
(* specification AuthSpec.                                                 *)
(***************************************************************************)
EXTENDS Integers, Sequences, FiniteSets, TLC

\* ---------------------------------------------------------------- bounds
NumConns == 3
NumWriters == 1
MaxDonations == 2
MaxObservedDonations == 1
MaxRequests == 3
MaxTime == 1
NumEmails == 2
NumPasswords == 2
NumCodes == 2
MaxAuthTime == 2

Conns == 1..NumConns
Writers == 1..NumWriters
Ids == 1..MaxDonations
Expiries == 0..MaxTime
None == 0
Emails == 1..NumEmails
Passwords == 1..NumPasswords
Codes == 1..NumCodes

\* ----------------------------------------------------------------- enums
DonationStatus == {"AVAILABLE", "ASSIGNED", "IN_TRANSIT", "DELIVERED", "CANCELLED"}

\* The transition graph of spec section 4.1 (the code has no such table;
\* it is what the lifecycle claims are stated against).
LegalEdges ==
    { <<"AVAILABLE", "ASSIGNED">>, <<"ASSIGNED", "IN_TRANSIT">>,
      <<"IN_TRANSIT", "DELIVERED">>, <<"AVAILABLE", "CANCELLED">>,
      <<"ASSIGNED", "CANCELLED">>, <<"IN_TRANSIT", "CANCELLED">> }

Terminal == {"DELIVERED", "CANCELLED"}

VARIABLES
    store,               \* committed rows of table donations: id -> row
    nextId,              \* next value of the primary-key sequence
    now,                 \* datetime.utcnow(), in abstract time units
    active_connections,  \* ConnectionManager.active_connections (a list)
    ep,                  \* websocket_endpoint task of each connection
    tr,                  \* transport of each connection
    pc,                  \* position of each writer request
    req,                 \* the request a writer is serving
    msg,                 \* the message a writer's broadcast carries
    idx,                 \* list-iterator index of a writer's broadcast
    cur,                 \* connection a writer's broadcast is sending to
    disconnected,        \* local list `disconnected` of a writer's broadcast
    delivered,           \* sends of a writer's broadcast that succeeded
    snap,                \* active_connections when the broadcast began
    interf,              \* kinds of list mutation by others during the broadcast
    result,              \* outcome of the writer's request
    running,             \* writer holding the event loop, or None
    nreq,                \* number of write requests accepted so far
    deleted_count,       \* deleted_count of the last cleanup
    users,               \* committed rows of table users: email -> row
    auth_now,            \* datetime.utcnow() of auth.py, in OTP lifetimes
    outbox,              \* the code of the last OTP mail sent to each email
    auth_req,            \* the last request served by the auth router
    auth_resp            \* its response

vars == << store, nextId, now, active_connections, ep, tr, pc, req, msg, idx,
           cur, disconnected, delivered, snap, interf, result, running, nreq,
           deleted_count, users, auth_now, outbox, auth_req, auth_resp >>

authVars == << users, auth_now, outbox, auth_req, auth_resp >>
mainVars == << store, nextId, now, active_connections, ep, tr, pc, req, msg,
               idx, cur, disconnected, delivered, snap, interf, result,
               running, nreq, deleted_count >>
storeVars == << store, nextId, now, deleted_count >>
hubVars == << active_connections, ep, tr >>
bcVars == << msg, idx, cur, disconnected, delivered, snap, interf >>

\* ------------------------------------------------------- list operations
Contains(list, x) == \E i \in 1..Len(list) : list[i] = x

ToSet(list) == { list[i] : i \in 1..Len(list) }

IndexOf(list, x) == CHOOSE i \in 1..Len(list) :
                        list[i] = x /\ \A j \in 1..(i-1) : list[j] # x

\* list.remove(x) for x in list: drops the first occurrence
Remove(list, x) ==
    LET i == IndexOf(list, x)
    IN  SubSeq(list, 1, i-1) \o SubSeq(list, i+1, Len(list))

\* A row of table donations (the columns the endpoints read or write) and
\* the absence of a row.
NoRow == [status |-> "NONE", expires_at |-> 0, assigned_volunteer_id |-> None]

Row(exp) == [status |-> "AVAILABLE", expires_at |-> exp,
             assigned_volunteer_id |-> None]

Exists(d) == store[d] # NoRow

NoMsg == [event |-> "NONE", id |-> None, status |-> "NONE"]
NoReq == [kind |-> "NONE", id |-> None, new |-> "NONE", old |-> "NONE"]
NoDelivery == [c \in Conns |-> 0]

\* ------------------------------------------------------- auth.py: data
\* timedelta(minutes=10): the unit of auth_now is the lifetime of an OTP.
OtpLifetime == 1

\* get_password_hash and verify_password (bcrypt): a hash is not the
\* password, and a password verifies against the hash made from it only.
NoHash == << "none", None >>
GetPasswordHash(p) == << "bcrypt", p >>
VerifyPassword(plain, hashed) == hashed = GetPasswordHash(plain)

\* create_access_token: a signed token whose subject is the email.
NoToken == << "none", None >>
CreateAccessToken(e) == << "bearer", e >>

\* A row of table users (the columns the endpoints read or write) and the
\* absence of a row.
NoUser == [password_hash |-> NoHash, otp_code |-> None,
           otp_expires_at |-> None, is_verified |-> 0]

NoAuthReq == [op |-> "NONE", email |-> None, otp |-> None]
NoAuthResp == [detail |-> "NONE", token |-> NoToken]

\* --------------------------------------------------------------- initial
Init ==
    /\ store = [d \in Ids |-> NoRow]
    /\ nextId = 1
    /\ now = 0
    /\ active_connections = << >>
    /\ ep = [c \in Conns |-> "idle"]
    /\ tr = [c \in Conns |-> "open"]
    /\ pc = [w \in Writers |-> "idle"]
    /\ req = [w \in Writers |-> NoReq]
    /\ msg = [w \in Writers |-> NoMsg]
    /\ idx = [w \in Writers |-> 0]
    /\ cur = [w \in Writers |-> None]
    /\ disconnected = [w \in Writers |-> << >>]
    /\ delivered = [w \in Writers |-> NoDelivery]
    /\ snap = [w \in Writers |-> << >>]
    /\ interf = [w \in Writers |-> {}]
    /\ result = [w \in Writers |-> "NONE"]
    /\ running = None
    /\ nreq = 0
    /\ deleted_count = 0
    /\ users = [e \in Emails |-> NoUser]
    /\ auth_now = 0
    /\ outbox = [e \in Emails |-> None]
    /\ auth_req = NoAuthReq
    /\ auth_resp = NoAuthResp

Free(w) == pc[w] = "idle"

\* pc = "done" is the instant at which an endpoint call returns or raises:
\* its locals are still there to be looked at.  The frame is discarded
\* (Reset) before any other step is taken.
Returning == \E v \in Writers : pc[v] = "done"

\* ------------------------------------------------------- ConnectionManager
\* A registration at the head of the list.
RegisteredAtFront(list, c) == << c >> \o list

\* A registration that appends the connection twice.
RegisteredTwice(list, c) == Append(Append(list, c), c)

\* connect: self.active_connections.append(websocket)
Registered(list, c) == Append(list, c)

\* A cleanup that forgets the failed connections.
CleanupNone(list, disc) == [list |-> list, raised |-> FALSE]

\* broadcast, "Clean up dead connections": for conn in disconnected:
\* self.active_connections.remove(conn).  list.remove raises ValueError for
\* a value that is not in the list, which leaves the loop.
RECURSIVE Cleanup(_, _)
Cleanup(list, disc) ==
    IF disc = << >> THEN [list |-> list, raised |-> FALSE]
    ELSE IF ~Contains(list, Head(disc)) THEN [list |-> list, raised |-> TRUE]
    ELSE Cleanup(Remove(list, Head(disc)), Tail(disc))

\* send_json on a connection: succeeds on an open transport, raises on a
\* closed one; on a stalled transport it does not complete.  The outcome
\* is that of the transport at the instant the broadcast is resumed.
SendFails(c) == tr[c] = "closed"

\* The writers whose broadcast is suspended at a send.
InFlight == { w \in Writers : pc[w] = "sending" }

Noted(kind, except) ==
    [v \in Writers |-> IF v \in InFlight \ except THEN interf[v] \cup {kind}
                       ELSE interf[v]]

\* One evaluation of the list iterator of `for connection in
\* self.active_connections` by writer w whose iterator stands at index i,
\* with local list disc: either the next connection is taken and its send
\* awaited, or the loop ends, the cleanup runs and the endpoint returns.
IterStep(w, i, disc) ==
    IF i < Len(active_connections)
    THEN /\ cur' = [cur EXCEPT ![w] = active_connections[i+1]]
         /\ idx' = [idx EXCEPT ![w] = i+1]
         /\ pc' = [pc EXCEPT ![w] = "sending"]
         /\ disconnected' = [disconnected EXCEPT ![w] = disc]
         /\ UNCHANGED << active_connections, result, interf >>
    ELSE LET r == Cleanup(active_connections, disc)
         IN  /\ active_connections' = r.list
             /\ cur' = [cur EXCEPT ![w] = None]
             /\ idx' = [idx EXCEPT ![w] = i]
             /\ pc' = [pc EXCEPT ![w] = "done"]
             /\ disconnected' = [disconnected EXCEPT ![w] = disc]
             /\ result' = [result EXCEPT ![w] =
                              IF r.raised THEN "ValueError" ELSE "ok"]
             /\ interf' = IF r.list # active_connections
                          THEN Noted("cleanup", {w}) ELSE interf

\* manager.broadcast(m) called by writer w: disconnected = [], then the
\* first evaluation of the iterator.
BeginBroadcast(w, m) ==
    /\ msg' = [msg EXCEPT ![w] = m]
    /\ snap' = [snap EXCEPT ![w] = active_connections]
    /\ delivered' = [delivered EXCEPT ![w] = NoDelivery]
    /\ IterStep(w, 0, << >>)

\* The awaited send_json of writer w's broadcast completes (returns or
\* raises) and the loop goes on to the next evaluation of the iterator.
SendComplete(w) ==
    /\ ~Returning
    /\ pc[w] = "sending"
    /\ running = None
    /\ tr[cur[w]] # "stalled"
    /\ IF SendFails(cur[w])
       THEN /\ delivered' = delivered
            /\ IterStep(w, idx[w], Append(disconnected[w], cur[w]))
       ELSE /\ delivered' = [delivered EXCEPT ![w][cur[w]] = @ + 1]
            /\ IterStep(w, idx[w], disconnected[w])
    /\ UNCHANGED << storeVars, ep, tr, req, msg, snap, running, nreq >>
    /\ UNCHANGED authVars

\* websocket_endpoint: await manager.connect(websocket).  Connections are
\* interchangeable, so they are accepted in the order of their numbers.
Connect(c) ==
    /\ ~Returning
    /\ ep[c] = "idle"
    /\ \A b \in 1..(c-1) : ep[b] # "idle"
    /\ running = None
    /\ active_connections' = Registered(active_connections, c)
    /\ ep' = [ep EXCEPT ![c] = "receiving"]
    /\ interf' = Noted("connect", {})
    /\ UNCHANGED << storeVars, tr, pc, req, msg, idx, cur, disconnected,
                    delivered, snap, result, running, nreq >>
    /\ UNCHANGED authVars

\* websocket_endpoint: receive_text raises WebSocketDisconnect and the
\* handler calls manager.disconnect(websocket); list.remove raises
\* ValueError when a broadcast has already pruned the connection.
EndpointDisconnect(c) ==
    /\ ~Returning
    /\ ep[c] = "receiving"
    /\ tr[c] = "closed"
    /\ running = None
    /\ IF Contains(active_connections, c)
       THEN /\ active_connections' = Remove(active_connections, c)
            /\ ep' = [ep EXCEPT ![c] = "ended"]
            /\ interf' = Noted("disconnect", {})
       ELSE /\ ep' = [ep EXCEPT ![c] = "crashed"]
            /\ UNCHANGED << active_connections, interf >>
    /\ UNCHANGED << storeVars, tr, pc, req, msg, idx, cur, disconnected,
                    delivered, snap, result, running, nreq >>
    /\ UNCHANGED authVars

\* websocket_endpoint: the client has sent a text and gone away, and the
\* send_json of the PONG (line 402) raises an exception that is not a
\* WebSocketDisconnect (which one a failed send raises depends on the
\* installed server and framework; when it is WebSocketDisconnect the step
\* is EndpointDisconnect).  The handler of line 407 does not catch it: the
\* task ends and manager.disconnect is not called.
EndpointAborts(c) ==
    /\ ~Returning
    /\ ep[c] = "receiving"
    /\ tr[c] = "closed"
    /\ running = None
    /\ ep' = [ep EXCEPT ![c] = "aborted"]
    /\ UNCHANGED << storeVars, active_connections, tr, pc, req, bcVars,
                    result, running, nreq >>
    /\ UNCHANGED authVars

\* The client of a registered connection goes away.
ClientClose(c) ==
    /\ ~Returning
    /\ ep[c] = "receiving"
    /\ tr[c] \in {"open", "stalled"}
    /\ tr' = [tr EXCEPT ![c] = "closed"]
    /\ UNCHANGED << storeVars, active_connections, ep, pc, req, bcVars,
                    result, running, nreq >>
    /\ UNCHANGED authVars

\* The client of a registered connection stops reading: sends to it block.
ClientStall(c) ==
    /\ ~Returning
    /\ ep[c] = "receiving"
    /\ tr[c] = "open"
    /\ tr' = [tr EXCEPT ![c] = "stalled"]
    /\ UNCHANGED << storeVars, active_connections, ep, pc, req, bcVars,
                    result, running, nreq >>
    /\ UNCHANGED authVars

\* ------------------------------------------------------------ the writers
Finish(w, r) ==
    /\ pc' = [pc EXCEPT ![w] = "done"]
    /\ result' = [result EXCEPT ![w] = r]
    /\ running' = None

\* create_donation: db.add(db_donation); db.commit() succeeds.
CreateDonation(w, exp) ==
    /\ ~Returning
    /\ Free(w)
    /\ running = None
    /\ nreq < MaxRequests
    /\ nextId <= MaxDonations
    /\ store' = [store EXCEPT ![nextId] = Row(exp)]
    /\ nextId' = nextId + 1
    /\ req' = [req EXCEPT ![w] = [kind |-> "create", id |-> nextId,
                                  new |-> "AVAILABLE", old |-> "NONE"]]
    /\ pc' = [pc EXCEPT ![w] = "cr_committed"]
    /\ running' = w
    /\ nreq' = nreq + 1
    /\ UNCHANGED << now, deleted_count, hubVars, bcVars, result >>
    /\ UNCHANGED authVars

\* A create_donation that announces the donation although its commit raised.
CreateDonationAnnouncesUncommitted(w) ==
    /\ ~Returning
    /\ Free(w)
    /\ running = None
    /\ nreq < MaxRequests
    /\ nextId <= MaxDonations
    /\ req' = [req EXCEPT ![w] = [kind |-> "create", id |-> nextId,
                                  new |-> "AVAILABLE", old |-> "NONE"]]
    /\ BeginBroadcast(w, [event |-> "NEW_DONATION", id |-> nextId,
                          status |-> "AVAILABLE"])
    /\ nreq' = nreq + 1
    /\ UNCHANGED << storeVars, ep, tr, running >>
    /\ UNCHANGED authVars

\* create_donation: db.commit() raises (the store is unavailable); the
\* exception leaves the endpoint before manager.broadcast is reached.
CreateDonationStoreFails(w) ==
    /\ ~Returning
    /\ Free(w)
    /\ running = None
    /\ nreq < MaxRequests
    /\ req' = [req EXCEPT ![w] = [kind |-> "create", id |-> None,
                                  new |-> "AVAILABLE", old |-> "NONE"]]
    /\ pc' = [pc EXCEPT ![w] = "done"]
    /\ result' = [result EXCEPT ![w] = "StoreError"]
    /\ nreq' = nreq + 1
    /\ UNCHANGED << storeVars, hubVars, bcVars, running >>
    /\ UNCHANGED authVars

\* create_donation: db.refresh(db_donation), then manager.broadcast of
\* NEW_DONATION and return db_donation.  refresh raises when the row has
\* been deleted since the commit.
CreateEmit(w) ==
    /\ ~Returning
    /\ pc[w] = "cr_committed"
    /\ running = w
    /\ IF ~Exists(req[w].id)
       THEN /\ Finish(w, "RefreshError")
            /\ UNCHANGED << active_connections, bcVars >>
       ELSE /\ BeginBroadcast(w, [event |-> "NEW_DONATION", id |-> req[w].id,
                                  status |-> store[req[w].id].status])
            /\ running' = None
    /\ UNCHANGED << storeVars, ep, tr, req, nreq >>
    /\ UNCHANGED authVars

\* update_donation_status: the query of line 364 and the 404 of line 367.
UpdateRead(w, d, s) ==
    /\ ~Returning
    /\ Free(w)
    /\ running = None
    /\ nreq < MaxRequests
    /\ nreq' = nreq + 1
    /\ IF ~Exists(d)
       THEN /\ req' = [req EXCEPT ![w] = [kind |-> "update", id |-> d,
                                          new |-> s, old |-> "NONE"]]
            /\ pc' = [pc EXCEPT ![w] = "done"]
            /\ result' = [result EXCEPT ![w] = "NotFound"]
            /\ UNCHANGED running
       ELSE /\ req' = [req EXCEPT ![w] = [kind |-> "update", id |-> d,
                                          new |-> s, old |-> store[d].status]]
            /\ pc' = [pc EXCEPT ![w] = "upd_read"]
            /\ running' = w
            /\ UNCHANGED result
    /\ UNCHANGED << storeVars, hubVars, bcVars >>
    /\ UNCHANGED authVars

\* Variants of the assignment that apply the request only along an edge of
\* the transition graph, or only to a donation that is not in a terminal
\* state.
AssignStatusGuarded(old, new) ==
    IF <<old, new>> \in LegalEdges THEN new ELSE old

AssignStatusTerminal(old, new) ==
    IF old \in Terminal THEN old ELSE new

\* donation.status = new_status (line 369)
AssignStatus(old, new) == new

\* A variant of the write that also restarts the donation's life at the
\* time of the status change.
UpdateCommitRenewsExpiry(w) ==
    /\ ~Returning
    /\ pc[w] = "upd_read"
    /\ running = w
    /\ LET d == req[w].id
           v == AssignStatus(req[w].old, req[w].new)
       IN  IF v # req[w].old /\ ~Exists(d)
           THEN /\ Finish(w, "StaleData")
                /\ UNCHANGED store
           ELSE /\ store' = IF Exists(d)
                            THEN [store EXCEPT ![d].status = v,
                                               ![d].expires_at = now]
                            ELSE store
                /\ pc' = [pc EXCEPT ![w] = "upd_committed"]
                /\ UNCHANGED << result, running >>
    /\ UNCHANGED << nextId, now, deleted_count, hubVars, bcVars,
                    req, nreq >>
    /\ UNCHANGED authVars

\* update_donation_status: donation.status = new_status; db.commit()
\* succeeds.  The flush sends UPDATE ... WHERE id = :id only when the
\* attribute changed; an UPDATE that matches no row raises StaleDataError.
UpdateCommit(w) ==
    /\ ~Returning
    /\ pc[w] = "upd_read"
    /\ running = w
    /\ LET d == req[w].id
           v == AssignStatus(req[w].old, req[w].new)
       IN  IF v # req[w].old /\ ~Exists(d)
           THEN /\ Finish(w, "StaleData")
                /\ UNCHANGED store
           ELSE /\ store' = IF Exists(d) THEN [store EXCEPT ![d].status = v]
                            ELSE store
                /\ pc' = [pc EXCEPT ![w] = "upd_committed"]
                /\ UNCHANGED << result, running >>
    /\ UNCHANGED << nextId, now, deleted_count, hubVars, bcVars,
                    req, nreq >>
    /\ UNCHANGED authVars

\* update_donation_status: db.commit() raises (the store is unavailable).
UpdateStoreFails(w) ==
    /\ ~Returning
    /\ pc[w] = "upd_read"
    /\ running = w
    /\ Finish(w, "StoreError")
    /\ UNCHANGED << storeVars, hubVars, bcVars, req, nreq >>
    /\ UNCHANGED authVars

\* The payload of lines 373-379: donation.id (a reload of the expired
\* instance, which raises ObjectDeletedError when the row is gone) and
\* new_status.value.
StatusUpdate(w) == [event |-> "STATUS_UPDATE", id |-> req[w].id,
                    status |-> req[w].new]

\* update_donation_status: manager.broadcast of STATUS_UPDATE and return.
UpdateEmit(w) ==
    /\ ~Returning
    /\ pc[w] = "upd_committed"
    /\ running = w
    /\ IF ~Exists(req[w].id)
       THEN /\ Finish(w, "ObjectDeleted")
            /\ UNCHANGED << active_connections, bcVars >>
       ELSE /\ BeginBroadcast(w, StatusUpdate(w))
            /\ running' = None
    /\ UNCHANGED << storeVars, ep, tr, req, nreq >>
    /\ UNCHANGED authVars

\* The endpoint call of worker w has returned or raised: its frame is
\* discarded and the worker is free for the next request.
Reset(w) ==
    /\ pc[w] = "done"
    /\ pc' = [pc EXCEPT ![w] = "idle"]
    /\ req' = [req EXCEPT ![w] = NoReq]
    /\ msg' = [msg EXCEPT ![w] = NoMsg]
    /\ idx' = [idx EXCEPT ![w] = 0]
    /\ disconnected' = [disconnected EXCEPT ![w] = << >>]
    /\ delivered' = [delivered EXCEPT ![w] = NoDelivery]
    /\ snap' = [snap EXCEPT ![w] = << >>]
    /\ interf' = [interf EXCEPT ![w] = {}]
    /\ result' = [result EXCEPT ![w] = "NONE"]
    /\ UNCHANGED << storeVars, hubVars, cur, running, nreq >>
    /\ UNCHANGED authVars

\* A sweep that only looks at the donations still on offer.
ExpiredAvailableOnly(d) ==
    Exists(d) /\ store[d].status = "AVAILABLE" /\ store[d].expires_at < now

\* cleanup_expired_donations: DELETE ... WHERE expires_at < now; commit.
Expired(d) == Exists(d) /\ store[d].expires_at < now

Sweep ==
    /\ ~Returning
    /\ store' = [d \in Ids |-> IF Expired(d) THEN NoRow ELSE store[d]]
    /\ deleted_count' = Cardinality({ d \in Ids : Expired(d) })
    /\ UNCHANGED << nextId, now, hubVars, pc, req, bcVars, result,
                    running, nreq >>
    /\ UNCHANGED authVars

\* Time passes.
Tick ==
    /\ ~Returning
    /\ now < MaxTime
    /\ now' = now + 1
    /\ UNCHANGED << store, nextId, deleted_count, hubVars, pc, req,
                    bcVars, result, running, nreq >>
    /\ UNCHANGED authVars

\* ------------------------------------------------------ the read endpoints
\* The `def` endpoints get_available_donations and get_map_markers answer
\* from one SELECT: their response is a function of the committed rows (and
\* of the clock) at that instant.  A SELECT leaves the order of the rows
\* open wherever no ORDER BY decides it, so a response is one of a set.
AvailableIds == { d \in Ids : Exists(d) /\ store[d].status = "AVAILABLE" }

Orders(S) ==
    { r \in [1..Cardinality(S) -> S] :
          \A i, j \in 1..Cardinality(S) : i # j => r[i] # r[j] }

\* get_available_donations: filter(status == AVAILABLE)
\* .order_by(expires_at.asc()).all(); the response lists the rows by id.
GetAvailableDonations ==
    { r \in Orders(AvailableIds) :
          \A i, j \in 1..Len(r) :
              i < j => store[r[i]].expires_at <= store[r[j]].expires_at }

\* get_map_markers, lines 326 and 337: round((expires_at - now)
\* .total_seconds() / 3600, 1).  The unit of time of the model is the hour,
\* so the quotient is a whole number and rounding to one decimal keeps it.
TimeUntilExpiryHours(d) == store[d].expires_at - now

MapMarker(d) ==
    [id |-> d, status |-> store[d].status, expires_at |-> store[d].expires_at,
     time_until_expiry_hours |-> TimeUntilExpiryHours(d)]

\* get_map_markers: filter(status == AVAILABLE).all(), no ORDER BY, then
\* one MapMarker per row in the order of the rows.
GetMapMarkers ==
    { [i \in 1..Len(r) |-> MapMarker(r[i])] : r \in Orders(AvailableIds) }

\* create_donation in the application with observers, where the donations
\* are bounded by MaxObservedDonations.
CreateObservedDonation(w, exp) ==
    /\ nextId <= MaxObservedDonations
    /\ CreateDonation(w, exp)

\* The whole application, with observers.
Next ==
    \/ \E w \in Writers, exp \in Expiries : CreateObservedDonation(w, exp)
    \/ \E w \in Writers : CreateDonationStoreFails(w)
    \/ \E w \in Writers : CreateEmit(w)
    \/ \E w \in Writers, d \in Ids, s \in DonationStatus : UpdateRead(w, d, s)
    \/ \E w \in Writers : UpdateCommit(w)
    \/ \E w \in Writers : UpdateStoreFails(w)
    \/ \E w \in Writers : UpdateEmit(w)
    \/ \E w \in Writers : SendComplete(w)
    \/ \E w \in Writers : Reset(w)
    \/ \E c \in Conns : Connect(c)
    \/ \E c \in Conns : EndpointDisconnect(c)
    \/ \E c \in Conns : EndpointAborts(c)
    \/ \E c \in Conns : ClientClose(c)
    \/ \E c \in Conns : ClientStall(c)
    \/ Sweep
    \/ Tick

Spec == Init /\ [][Next]_vars

\* The store endpoints while no client is connected to /ws: every broadcast
\* finds an empty list and returns at once.  Donations are bounded by
\* MaxDonations.
StoreNext ==
    \/ \E w \in Writers, exp \in Expiries : CreateDonation(w, exp)
    \/ \E w \in Writers : CreateDonationStoreFails(w)
    \/ \E w \in Writers : CreateEmit(w)
    \/ \E w \in Writers, d \in Ids, s \in DonationStatus : UpdateRead(w, d, s)
    \/ \E w \in Writers : UpdateCommit(w)
    \/ \E w \in Writers : UpdateStoreFails(w)
    \/ \E w \in Writers : UpdateEmit(w)
    \/ \E w \in Writers : Reset(w)
    \/ Sweep
    \/ Tick

StoreSpec == Init /\ [][StoreNext]_vars

\* The event loop runs every task that is ready: a send that has completed
\* resumes its broadcast, and a writer that holds the loop goes on to its
\* next statement.  Nothing obliges a client to close, stall or connect,
\* a request to arrive, or the store to fail.
Fairness ==
    \A w \in Writers :
        /\ WF_vars(SendComplete(w))
        /\ WF_vars(CreateEmit(w))
        /\ WF_vars(UpdateCommit(w))
        /\ WF_vars(UpdateEmit(w))
        /\ WF_vars(Reset(w))

FairSpec == Spec /\ Fairness

\* -------------------------------------------------- auth.py: the router
\* The endpoints of auth.py are `async def` without an await: each call
\* runs from its query to its response without interruption.  A request is
\* recorded with the otp it carried (None where the schema has none); a
\* response is its message or error detail and the token it carries.
AuthRequest(op, e, k) == [op |-> op, email |-> e, otp |-> k]

Answer(detail) == [detail |-> detail, token |-> NoToken]

TokenFor(e) == [detail |-> "bearer", token |-> CreateAccessToken(e)]

\* otp = generate_otp(); otp_code = otp; otp_expires_at = utcnow() + 10 min
WithOtp(row, k) ==
    [row EXCEPT !.otp_code = k, !.otp_expires_at = auth_now + OtpLifetime]

\* A verification that leaves the OTP in the row.
ClearedOtpKept(row) == row

\* user.otp_code = None; user.otp_expires_at = None
ClearedOtp(row) == [row EXCEPT !.otp_code = None, !.otp_expires_at = None]

\* db.commit() of an auth endpoint succeeds: the row is written, the OTP
\* mail (if any) is handed to the background task and the response is r.
AuthCommit(e, row, mail, r) ==
    /\ users' = [users EXCEPT ![e] = row]
    /\ outbox' = [outbox EXCEPT ![e] = IF mail = None THEN @ ELSE mail]
    /\ auth_resp' = r

\* db.commit() raises: nothing is written, no mail, no token.
AuthCommitFails ==
    /\ auth_resp' = Answer("StoreError")
    /\ UNCHANGED << users, outbox >>

\* An HTTPException raised before any write.
AuthRejects(detail) ==
    /\ auth_resp' = Answer(detail)
    /\ UNCHANGED << users, outbox >>

\* register (lines 243-281)
Register(e, p, k) ==
    /\ auth_req' = AuthRequest("register", e, None)
    /\ IF users[e] # NoUser
       THEN AuthRejects("Email already registered")
       ELSE \/ AuthCommit(e, WithOtp([NoUser EXCEPT
                                         !.password_hash = GetPasswordHash(p)], k),
                          k, Answer("Registration successful"))
            \/ AuthCommitFails
    /\ UNCHANGED << auth_now, mainVars >>

\* verify_otp (lines 285-318)
VerifyOtp(e, k) ==
    /\ auth_req' = AuthRequest("verify_otp", e, k)
    /\ IF users[e] = NoUser THEN AuthRejects("User not found")
       ELSE IF users[e].otp_code # k THEN AuthRejects("Invalid OTP")
       ELSE IF users[e].otp_expires_at < auth_now THEN AuthRejects("OTP expired")
       ELSE \/ AuthCommit(e, ClearedOtp([users[e] EXCEPT !.is_verified = 1]),
                          None, TokenFor(e))
            \/ AuthCommitFails
    /\ UNCHANGED << auth_now, mainVars >>

\* login (lines 321-353)
Login(e, p, k) ==
    /\ auth_req' = AuthRequest("login", e, None)
    /\ IF users[e] = NoUser THEN AuthRejects("Invalid email or password")
       ELSE IF ~VerifyPassword(p, users[e].password_hash)
            THEN AuthRejects("Invalid email or password")
       ELSE IF users[e].is_verified = 0 THEN AuthRejects("Account not verified")
       ELSE \/ AuthCommit(e, WithOtp(users[e], k), k, Answer("OTP sent"))
            \/ AuthCommitFails
    /\ UNCHANGED << auth_now, mainVars >>

\* login_verify (lines 356-388)
LoginVerify(e, k) ==
    /\ auth_req' = AuthRequest("login_verify", e, k)
    /\ IF users[e] = NoUser THEN AuthRejects("User not found")
       ELSE IF users[e].otp_code # k THEN AuthRejects("Invalid OTP")
       ELSE IF users[e].otp_expires_at < auth_now THEN AuthRejects("OTP expired")
       ELSE \/ AuthCommit(e, ClearedOtp(users[e]), None, TokenFor(e))
            \/ AuthCommitFails
    /\ UNCHANGED << auth_now, mainVars >>

\* resend_otp (lines 391-417)
ResendOtp(e, k) ==
    /\ auth_req' = AuthRequest("resend_otp", e, None)
    /\ IF users[e] = NoUser THEN AuthRejects("User not found")
       ELSE \/ AuthCommit(e, WithOtp(users[e], k), k, Answer("OTP resent"))
            \/ AuthCommitFails
    /\ UNCHANGED << auth_now, mainVars >>

\* Time passes.
AuthTick ==
    /\ auth_now < MaxAuthTime
    /\ auth_now' = auth_now + 1
    /\ UNCHANGED << users, outbox, auth_req, auth_resp, mainVars >>

\* The auth router.
AuthNext ==
    \/ \E e \in Emails, p \in Passwords, k \in Codes : Register(e, p, k)
    \/ \E e \in Emails, k \in Codes : VerifyOtp(e, k)
    \/ \E e \in Emails, p \in Passwords, k \in Codes : Login(e, p, k)
    \/ \E e \in Emails, k \in Codes : LoginVerify(e, k)
    \/ \E e \in Emails, k \in Codes : ResendOtp(e, k)
    \/ AuthTick

AuthSpec == Init /\ [][AuthNext]_vars

\* ================================================================ claims
\* The writer's broadcast has ended (returned or raised) at this instant.
BroadcastEnded(w) == pc[w] = "done" /\ msg[w] # NoMsg

StatusChanges(d) ==
    Exists(d) /\ Exists(d)' /\ store'[d].status # store[d].status

Commits(w) == pc[w] = "upd_read" /\ pc'[w] = "upd_committed"

\* C1 (as claimed): every change of a donation's stored status follows an
\* edge of the transition graph AVAILABLE->ASSIGNED, ASSIGNED->IN_TRANSIT,
\* IN_TRANSIT->DELIVERED, {AVAILABLE, ASSIGNED, IN_TRANSIT}->CANCELLED; a
\* request for any other edge leaves the stored status unchanged.
C1_StatusFollowsGraph ==
    [][\A d \in Ids :
          StatusChanges(d) => <<store[d].status, store'[d].status>> \in LegalEdges]_vars

\* C1 (amended): update_donation_status enforces no transition graph.  The
\* stored status of a donation changes only by the commit of a setStatus
\* request for it, every such commit on an existing donation sets the
\* stored status to the requested status whatever the current one, and no
\* request returns IllegalTransition.
C1_StatusSetToRequested ==
    [][/\ \A d \in Ids :
             StatusChanges(d) =>
                 \E w \in Writers : Commits(w) /\ req[w].id = d
       /\ \A w \in Writers :
             Commits(w) /\ Exists(req[w].id) =>
                 store'[req[w].id].status = req[w].new
       /\ \A w \in Writers : result'[w] # "IllegalTransition"]_vars

\* C1 witness: a request over an edge that is not in the graph has been
\* committed and the stored status is the requested one.
C1_Witness ==
    \E w \in Writers :
        /\ pc[w] = "upd_committed"
        /\ req[w].old # req[w].new
        /\ <<req[w].old, req[w].new>> \notin LegalEdges
        /\ Exists(req[w].id)
        /\ store[req[w].id].status = req[w].new

\* C2 (as claimed): DELIVERED and CANCELLED are terminal: once a donation's
\* stored status is DELIVERED or CANCELLED no later request changes it.
C2_TerminalIsFinal ==
    [][\A d \in Ids :
          Exists(d) /\ store[d].status \in Terminal /\ Exists(d)'
              => store'[d].status = store[d].status]_vars

\* C2 (amended): DELIVERED and CANCELLED are not terminal in the code.  A
\* setStatus request on a donation read as DELIVERED or CANCELLED is served
\* like any other: its commit sets the stored status to the requested one
\* and, the row still being there, a STATUS_UPDATE event with the id and
\* the requested status is broadcast.
C2_TerminalIsOverwritten ==
    [][\A w \in Writers :
          req[w].old \in Terminal =>
              /\ Commits(w) /\ Exists(req[w].id) =>
                     store'[req[w].id].status = req[w].new
              /\ pc[w] = "upd_committed" /\ pc'[w] # pc[w] /\ Exists(req[w].id) =>
                     msg'[w] = [event |-> "STATUS_UPDATE", id |-> req[w].id,
                                status |-> req[w].new]]_vars

\* C2 witness: a request read a terminal status, asked for another one and
\* its broadcast has returned.
C2_Witness ==
    \E w \in Writers :
        /\ BroadcastEnded(w)
        /\ req[w].old \in Terminal
        /\ req[w].new # req[w].old
        /\ msg[w].event = "STATUS_UPDATE"
        /\ result[w] = "ok"

\* C3: a broadcast to N registered observers of which k fail their send,
\* during which no other task changes the list, leaves exactly the N-k
\* observers whose send succeeded registered, and each of them received
\* the event exactly once, wherever the failing observers stand in the list.
C3_BroadcastPrunesFailed ==
    \A w \in Writers :
        BroadcastEnded(w) /\ interf[w] = {} =>
            /\ result[w] = "ok"
            /\ ToSet(active_connections)
                   = ToSet(snap[w]) \ ToSet(disconnected[w])
            /\ Len(active_connections) = Len(snap[w]) - Len(disconnected[w])
            /\ \A c \in ToSet(active_connections) : delivered[w][c] = 1
            /\ \A c \in ToSet(disconnected[w]) : delivered[w][c] = 0

\* C3 witness: three observers, the one in the middle failed, two remain.
C3_Witness ==
    \E w \in Writers :
        /\ BroadcastEnded(w) /\ interf[w] = {}
        /\ Len(snap[w]) = 3
        /\ disconnected[w] = << snap[w][2] >>
        /\ Len(active_connections) = 2

\* C4 (as claimed): a broadcast delivers the event to every observer that
\* was registered when it began, is still registered when it ends and whose
\* send did not fail, whatever connects and disconnects of other observers
\* happen while the broadcast is suspended at a send.  (Stated for the
\* broadcasts that return normally, which the claim covers.)
C4_RegisteredObserverIsReached ==
    \A w \in Writers :
        BroadcastEnded(w) /\ result[w] = "ok" =>
            \A c \in ToSet(snap[w]) :
                Contains(active_connections, c) /\ ~Contains(disconnected[w], c)
                    => delivered[w][c] >= 1

\* C5: when a new observer registers while a broadcast is in flight, the
\* broadcast is delivered at most once to every observer, and a broadcast
\* whose only interference was such registrations returns without raising.
C5_ConnectDuringBroadcast ==
    \A w \in Writers :
        "connect" \in interf[w] =>
            /\ \A c \in Conns : delivered[w][c] <= 1
            /\ BroadcastEnded(w) /\ interf[w] = {"connect"} => result[w] = "ok"

\* C5 witness: an observer registered during the broadcast, the broadcast
\* returned and reached the new observer once.
C5_Witness ==
    \E w \in Writers :
        /\ BroadcastEnded(w)
        /\ interf[w] = {"connect"}
        /\ result[w] = "ok"
        /\ \E c \in Conns : ~Contains(snap[w], c) /\ delivered[w][c] = 1

\* C6 (as claimed): a delivery failure is never surfaced to the writer:
\* once the commit has succeeded and the broadcast has begun, the endpoint
\* returns its success result whatever sends fail and whatever observers
\* disconnect meanwhile; broadcast never raises.
C6_WriterSeesSuccess ==
    \A w \in Writers : BroadcastEnded(w) => result[w] = "ok"

\* C7 (as claimed): an observer whose send failed during a broadcast is out
\* of the live set when that broadcast call ends, so that no later
\* broadcast attempts a send to it.
C7_FailedObserverIsPruned ==
    \A w \in Writers :
        BroadcastEnded(w) =>
            \A c \in ToSet(disconnected[w]) : ~Contains(active_connections, c)

\* The ids whose INSERT has been committed: the sequence only moves on a
\* successful commit.
Committed == 1..(nextId - 1)

\* C9: create writes the donation with status AVAILABLE and the
\* NEW_DONATION event is sent only after the commit has succeeded: an event
\* in flight to the observers is for a committed id and carries AVAILABLE,
\* and a create whose commit failed has sent no event.
C9_CreatedAfterCommit ==
    \A w \in Writers :
        /\ msg[w].event = "NEW_DONATION" =>
               /\ req[w].kind = "create"
               /\ msg[w].id = req[w].id
               /\ msg[w].id \in Committed
               /\ msg[w].status = "AVAILABLE"
        /\ pc[w] = "cr_committed" /\ Exists(req[w].id) =>
               store[req[w].id].status = "AVAILABLE"
        /\ req[w].kind = "create" /\ result[w] = "StoreError" =>
               /\ msg[w] = NoMsg
               /\ \A c \in Conns : delivered[w][c] = 0

\* C9 witness: an observer has received the NEW_DONATION event of a
\* committed donation.
C9_Witness ==
    \E w \in Writers, c \in Conns :
        /\ msg[w].event = "NEW_DONATION"
        /\ msg[w].id \in Committed
        /\ delivered[w][c] = 1

\* The store write of writer w's setStatus request has succeeded.
UpdateWritten(w) ==
    /\ req[w].kind = "update"
    /\ \/ pc[w] \in {"upd_committed", "sending"}
       \/ pc[w] = "done" /\ result[w] \in {"ok", "ValueError", "ObjectDeleted"}

\* C10 (as claimed): if the store write of a transition fails no
\* STATUS_UPDATE event is broadcast, and if it succeeds a StatusChanged
\* event carrying the id, the old status and the new status is handed to
\* the Broadcast Hub.
C10_StatusChangedCarriesOldAndNew ==
    \A w \in Writers :
        /\ req[w].kind = "update" /\ result[w] \in {"StoreError", "StaleData"} =>
               msg[w] = NoMsg
        /\ UpdateWritten(w) /\ pc[w] # "upd_committed" =>
               /\ msg[w].event = "STATUS_UPDATE"
               /\ msg[w].id = req[w].id
               /\ msg[w].status = req[w].new
               /\ "old" \in DOMAIN msg[w]
               /\ msg[w].old = req[w].old

\* C8 (as claimed): a slow observer does not block delivery: a broadcast
\* that is suspended at a send always comes to its end, the stalled send
\* being treated as failed after a while, and the other observers of the
\* list are attempted.
C8_BroadcastTerminates ==
    \A w \in Writers : (pc[w] = "sending") ~> (pc[w] = "done")

\* C11: a sweep deletes exactly the donations whose expiry is strictly
\* before now, whatever their status, leaves every other donation as it
\* was and returns the number it deleted; after it no donation with expiry
\* before now is listed by get_available_donations or get_map_markers.
C11_SweepDeletesExactlyExpired ==
    [][Sweep =>
          LET gone == { d \in Ids : store[d] # NoRow /\ store[d].expires_at < now }
          IN  /\ \A d \in gone : store'[d] = NoRow
              /\ \A d \in Ids \ gone : store'[d] = store[d]
              /\ deleted_count' = Cardinality(gone)
              /\ \A r \in GetAvailableDonations' :
                     \A i \in 1..Len(r) : ~(store'[r[i]].expires_at < now')
              /\ \A r \in GetMapMarkers' :
                     \A i \in 1..Len(r) : ~(r[i].expires_at < now')]_vars

\* C11 witness: a sweep has deleted one donation and left another one.
C11_Witness ==
    \E d, e \in Ids :
        /\ e < nextId /\ ~Exists(e)
        /\ Exists(d)
        /\ deleted_count = 1

\* The sweep step deletes donation d.
Deletes(d) == store[d] # NoRow /\ store'[d] = NoRow

\* C12 (as claimed): for every donation that a sweep deletes, one
\* Removed(id, expired) event is handed to the hub for the registered
\* observers, and none for a donation that was not deleted.
C12_SweepAnnouncesRemoval ==
    [][Sweep =>
          /\ \A d \in Ids :
                 Deletes(d) =>
                     \E w \in Writers :
                         msg'[w].event = "REMOVED" /\ msg'[w].id = d
          /\ \A w \in Writers :
                 msg'[w].event = "REMOVED" => Deletes(msg'[w].id)]_vars

\* C13 (as claimed): when a sweep and a setStatus request race on one id
\* the deletion wins: a request that finds the donation removed, at its
\* read or at a later store call, fails with NotFound, and it broadcasts no
\* STATUS_UPDATE event.  (A request that fails because the store is
\* unavailable is left aside.)
C13_DeletionWins ==
    \A w \in Writers :
        /\ req[w].kind = "update"
        /\ pc[w] = "done"
        /\ ~Exists(req[w].id)
        /\ msg[w] = NoMsg
        /\ result[w] # "StoreError"
        => result[w] = "NotFound"

\* C14 (as claimed): the remaining life of every projected marker is
\* expiry - now clamped at zero: it is never negative, also for a donation
\* that has expired and has not been swept yet.
C14_RemainingLifeClamped ==
    \A r \in GetMapMarkers :
        \A i \in 1..Len(r) :
            /\ r[i].time_until_expiry_hours >= 0
            /\ r[i].time_until_expiry_hours =
                   IF r[i].expires_at > now THEN r[i].expires_at - now ELSE 0

\* The response lists exactly the donations on offer, soonest expiry first.
ExactAndAscending(ids, expiries) ==
    /\ Len(ids) = Cardinality(AvailableIds)
    /\ ToSet(ids) = AvailableIds
    /\ \A i, j \in 1..Len(expiries) : i < j => expiries[i] <= expiries[j]

\* C15 (as claimed): in every state of the store get_available_donations
\* and get_map_markers each return exactly the donations whose status is
\* AVAILABLE, in ascending order of expiry.
C15_ListingsSortedByExpiry ==
    /\ \A r \in GetAvailableDonations :
           ExactAndAscending(r, [i \in 1..Len(r) |-> store[r[i]].expires_at])
    /\ \A r \in GetMapMarkers :
           ExactAndAscending([i \in 1..Len(r) |-> r[i].id],
                             [i \in 1..Len(r) |-> r[i].expires_at])

\* C16 (as claimed): in every state of the store a donation with status
\* ASSIGNED has its assigned volunteer set and a donation with status
\* AVAILABLE has it unset.
C16_AssignedHasVolunteer ==
    \A d \in Ids :
        Exists(d) =>
            /\ store[d].status = "ASSIGNED" => store[d].assigned_volunteer_id # None
            /\ store[d].status = "AVAILABLE" => store[d].assigned_volunteer_id = None

\* C17 (as claimed): the live-observer list is not structurally changed
\* while a broadcast is iterating over it: across every step taken between
\* the start and the end of a broadcast's iteration the list is the same.
C17_NoMutationWhileIterating ==
    [][(\E w \in Writers : pc[w] = "sending" /\ pc'[w] = "sending")
           => active_connections' = active_connections]_vars

\* The observer's task has terminated.
Terminated(c) == ep[c] \in {"ended", "crashed", "aborted"}

\* C18 (as claimed): an accepted connection stays registered until its
\* transport closes, and whenever the observer's task has terminated the
\* observer has been unregistered: no terminated connection is in the live
\* list.
C18_TerminatedIsUnregistered ==
    \A c \in Conns :
        /\ ep[c] = "receiving" /\ tr[c] # "closed" => Contains(active_connections, c)
        /\ Terminated(c) => ~Contains(active_connections, c)

\* C20 (as claimed): removal of an observer is idempotent under every
\* interleaving of disconnect and broadcast: a disconnect of an observer
\* that a broadcast has already pruned, and a broadcast cleanup of an
\* observer that disconnect has already removed, complete without error.
C20_RemovalIsIdempotent ==
    /\ \A c \in Conns : ep[c] # "crashed"
    /\ \A w \in Writers : pc[w] = "done" => result[w] # "ValueError"

\* A step of the setStatus request served by writer w.
UpdateStep(w) ==
    \/ \E d \in Ids, s \in DonationStatus : UpdateRead(w, d, s)
    \/ UpdateCommit(w)
    \/ UpdateStoreFails(w)
    \/ UpdateEmit(w)

\* C19: the expiry timestamp of a stored donation never changes, and a
\* setStatus request, accepted or rejected, changes nothing in the store
\* but the status of the donation it names: every other field of that
\* donation and every other donation are left as they were, and no row is
\* added or removed.
C19_UpdateChangesOnlyStatus ==
    [][/\ \A d \in Ids :
              store[d] # NoRow /\ store'[d] # NoRow
                  => store'[d].expires_at = store[d].expires_at
       /\ \A w \in Writers :
              UpdateStep(w) =>
                  /\ \A d \in Ids :
                         \/ store'[d] = store[d]
                         \/ /\ d = req'[w].id
                            /\ store[d] # NoRow
                            /\ store'[d] = [store[d] EXCEPT !.status = req'[w].new]
                  /\ nextId' = nextId
                  /\ deleted_count' = deleted_count]_vars

\* A setStatus request has changed the status of its donation while another
\* donation is stored.
C19_Witness ==
    \E w \in Writers :
        /\ req[w].kind = "update"
        /\ pc[w] = "upd_committed"
        /\ req[w].new # req[w].old
        /\ Exists(req[w].id)
        /\ store[req[w].id].status = req[w].new
        /\ store[req[w].id].expires_at # now
        /\ \E e \in Ids \ {req[w].id} : Exists(e)

\* The live list holds no connection twice, holds only connections whose
\* connect has completed and whose endpoint has not called disconnect, and
\* holds no connection that failed a send in a broadcast that has just
\* run to completion.
LiveSetWellFormed ==
    /\ \A i, j \in 1..Len(active_connections) :
           i # j => active_connections[i] # active_connections[j]
    /\ \A c \in ToSet(active_connections) : ep[c] \in {"receiving", "aborted"}
    /\ \A w \in Writers :
           BroadcastEnded(w) /\ result[w] = "ok" =>
               \A c \in ToSet(disconnected[w]) : ~Contains(active_connections, c)

\* C21: in every reachable state active_connections contains each
\* connection at most once and contains only connections that have
\* completed connect and have since neither been disconnected nor failed a
\* send in a completed broadcast: the list is well formed before and after
\* every step, and a connection enters the list only by its own connect, so
\* that one that was removed is never in the list again.
C21_LiveSetWellFormed ==
    [][/\ LiveSetWellFormed
       /\ LiveSetWellFormed'
       /\ \A c \in Conns :
              ~Contains(active_connections, c) /\ Contains(active_connections', c)
                  => ep[c] = "idle" /\ ep'[c] = "receiving"]_vars

\* A broadcast has run to completion after pruning an observer whose send
\* failed, another observer has been unregistered by its endpoint, and a
\* third is still in the list.
C21_Witness ==
    \E w \in Writers :
        /\ BroadcastEnded(w) /\ result[w] = "ok"
        /\ disconnected[w] # << >>
        /\ \E c \in Conns : ep[c] = "ended"
        /\ active_connections # << >>

\* C22 (as claimed): an access token is issued only to a verified account:
\* at the moment verify_otp or login_verify returns a token the user's
\* is_verified is 1, so that an account that registered and never completed
\* verify-otp obtains no token by any sequence of register, login,
\* resend-otp and login/verify calls.
C22_TokenOnlyForVerified ==
    auth_resp.token # NoToken =>
        /\ auth_req.op \in {"verify_otp", "login_verify"}
        /\ auth_resp.token = CreateAccessToken(auth_req.email)
        /\ users[auth_req.email].is_verified = 1

\* A step of one of the two endpoints that verify an OTP.
Verifies(e, k) == VerifyOtp(e, k) \/ LoginVerify(e, k)

\* C23: an OTP is single-use.  A verify_otp or login_verify that returns a
\* token leaves otp_code and otp_expires_at of the user cleared; a verify
\* for a user whose OTP is cleared, whatever code it carries, fails with
\* "Invalid OTP", issues no token and writes nothing; and a cleared OTP is
\* set again only by login or resend-otp generating a new one.
C23_OtpIsSingleUse ==
    [][/\ \A e \in Emails, k \in Codes :
              Verifies(e, k) =>
                  /\ auth_resp'.token # NoToken
                         => /\ users[e].otp_code = k
                            /\ users'[e].otp_code = None
                            /\ users'[e].otp_expires_at = None
                  /\ users[e] # NoUser /\ users[e].otp_code = None
                         => /\ auth_resp' = Answer("Invalid OTP")
                            /\ users' = users
       /\ \A e \in Emails :
              users[e] # NoUser /\ users[e].otp_code = None
                  /\ users'[e].otp_code # None
                  => /\ auth_req'.op \in {"login", "resend_otp"}
                     /\ auth_req'.email = e
                     /\ users'[e].otp_code = outbox'[e]]_vars

\* The code that was mailed to a user has been used by a successful
\* verification, and a second verification with that same code has just
\* been refused with "Invalid OTP".
C23_Witness ==
    /\ auth_req.op \in {"verify_otp", "login_verify"}
    /\ auth_req.otp = outbox[auth_req.email]
    /\ users[auth_req.email].is_verified = 1
    /\ users[auth_req.email].otp_code = None
    /\ auth_resp = Answer("Invalid OTP")

====
